---- MODULE Spec2Model ----
(***************************************************************************)
(* Model of performance_metrics_collector.py: the sampling/export loop,    *)
(* the connection context manager and the exception routing between       *)
(* send_data, the loop's try block and the with statement.                 *)
(*                                                                         *)
(* One action is one step of the single thread of control.  A             *)
(* KeyboardInterrupt is asynchronous: the interpreter can raise it at any  *)
(* program point, so Interrupt is enabled wherever the thread can stand.   *)
(***************************************************************************)
EXTENDS Integers, Sequences, FiniteSets, TLC

VARIABLES
    pc,          \* program point of the main thread
    exc,         \* exception propagating out of the with block ("None" if none)
    data,        \* local `data` of collect_and_report_to_es
    indexExists, \* backend: does the target index exist
    calls,       \* log of the backend calls issued by send_data
    opened,      \* number of OpenSearch clients constructed
    closeCalls,  \* number of client.close() calls
    exitCode,    \* process exit status, NotExited while it runs
    started,     \* iterations whose try body was entered
    collected,   \* collect_data calls that returned a sample
    returned,    \* send_data calls that returned normally
    intAt,       \* history: one snapshot per delivered KeyboardInterrupt
    trace,       \* history: the driver's calls (collect, send, sleep) and wake-ups
    samples      \* history: the dicts collect_data returned, one per iteration

vars == <<pc, exc, data, indexExists, calls, opened, closeCalls, exitCode,
          started, collected, returned, intAt, trace, samples>>

\* ---------------------------------------------------------------- bounds
MaxSamples == 3
MaxInterrupts == 2

\* ------------------------------------------------------------- constants
NotExited == -1

\* Exception classes.  The client library raises its own hierarchy
\* (opensearchpy TransportError and subclasses such as ConnectionError);
\* requests.HTTPError is the class send_data names; TypeError stands for
\* any programming error.
HTTPError == "requests.HTTPError"
TransportError == "opensearchpy.TransportError"
ProgrammingError == "TypeError"
KeyboardInterrupt == "KeyboardInterrupt"

TransportClass == {HTTPError, TransportError}
ClientErrors == {HTTPError, TransportError, ProgrammingError}

\* Host readings psutil can return (cpu, memory, disk percentages and the
\* network byte counters).
HostReadings ==
    { [cpu |-> 0,   mem |-> 40, disk |-> 70, sent |-> 10, recv |-> 20],
      [cpu |-> 100, mem |-> 40, disk |-> 70, sent |-> 10, recv |-> 20] }

SampleFields == {"timestamp", "cpu_percent", "memory_percent",
                 "network_sent", "network_recv", "disk_percent"}

\* `data` before the first assignment
NoData == [timestamp |-> 0, cpu_percent |-> 0, memory_percent |-> 0,
           network_sent |-> 0, network_recv |-> 0, disk_percent |-> 0]

\* mutant: the dict is built without its last key
MakeSample_partial(now, r) ==
    [timestamp |-> now, cpu_percent |-> r.cpu, memory_percent |-> r.mem,
     network_sent |-> r.sent, network_recv |-> r.recv]

\* the dict built by collect_data; the clock advances at least one second
\* per sample because cpu_percent(interval=1) blocks for one second
MakeSample(now, r) ==
    [timestamp |-> now, cpu_percent |-> r.cpu, memory_percent |-> r.mem,
     network_sent |-> r.sent, network_recv |-> r.recv, disk_percent |-> r.disk]

\* ------------------------------------------------------ exception routing
\* mutant: a bare `except Exception` in send_data
SendCatches_all(e) == TRUE

\* `except HTTPError` of send_data
SendCatches(e) == e = HTTPError

\* mutant: the loop has no handler for the interrupt
LoopCatches_none(e) == FALSE

\* `except KeyboardInterrupt` of the loop
LoopCatches(e) == e = KeyboardInterrupt

\* program points inside send_data's try block
InSend == {"exists", "create", "index"}

\* program points inside the loop's try block (send_data's handler runs
\* inside it too)
InTry == {"collect", "exists", "create", "index", "send_except", "sleep"}

\* program points of the with block outside the loop's try block
InWith == {"loop_head", "handler"}

Running == InTry \cup InWith

\* where control goes when exception e is raised at program point p
RaiseTo(e, p) ==
    IF p \in InSend /\ SendCatches(e) THEN [pc |-> "send_except", exc |-> "None"]
    ELSE IF p \in InTry /\ LoopCatches(e) THEN [pc |-> "handler", exc |-> "None"]
    ELSE [pc |-> "exit_print", exc |-> e]

Entry(op, res) == [op |-> op, call |-> started, doc |-> data, res |-> res]

\* ------------------------------------------------------------------ Init
Init ==
    /\ pc = "init"
    /\ exc = "None"
    /\ data = NoData
    /\ indexExists \in BOOLEAN
    /\ calls = <<>>
    /\ opened = 0
    /\ closeCalls = 0
    /\ exitCode = NotExited
    /\ started = 0
    /\ collected = 0
    /\ returned = 0
    /\ intAt = <<>>
    /\ trace = <<>>
    /\ samples = <<>>

\* --------------------------------------------------------------- actions
\* OpenShiftConnectionCleaner.__init__ and __enter__ succeed
Connect ==
    /\ pc = "init"
    /\ opened' = opened + 1
    /\ pc' = "loop_head"
    /\ UNCHANGED <<exc, data, indexExists, calls, closeCalls, exitCode,
                   started, collected, returned, intAt, trace, samples>>

\* mutant: the constructor's failure is swallowed and the loop is entered
ConnectFail_swallowed ==
    /\ pc = "init"
    /\ pc' = "loop_head"
    /\ UNCHANGED <<exc, data, indexExists, calls, opened, closeCalls, exitCode,
                   started, collected, returned, intAt, trace, samples>>

\* the OpenSearch constructor raises: nothing catches it
ConnectFail ==
    /\ pc = "init"
    /\ pc' = "done"
    /\ exc' = ProgrammingError
    /\ exitCode' = 1
    /\ UNCHANGED <<data, indexExists, calls, opened, closeCalls,
                   started, collected, returned, intAt, trace, samples>>

\* `while True:` then `try:`; collect_data is called
LoopHead ==
    /\ pc = "loop_head"
    /\ started < MaxSamples
    /\ started' = started + 1
    /\ pc' = "collect"
    /\ trace' = Append(trace, "collect")
    /\ UNCHANGED <<exc, data, indexExists, calls, opened, closeCalls, exitCode,
                   collected, returned, intAt, samples>>

\* collect_data returns the dict
CollectData ==
    /\ pc = "collect"
    /\ \E r \in HostReadings : data' = MakeSample(collected + 1, r)
    /\ collected' = collected + 1
    /\ pc' = "exists"
    /\ samples' = Append(samples, data')
    /\ trace' = Append(trace, "send")
    /\ UNCHANGED <<exc, indexExists, calls, opened, closeCalls, exitCode,
                   started, returned, intAt>>

\* a psutil query raises
CollectDataFail ==
    /\ pc = "collect"
    /\ pc' = RaiseTo(ProgrammingError, "collect").pc
    /\ exc' = RaiseTo(ProgrammingError, "collect").exc
    /\ UNCHANGED <<data, indexExists, calls, opened, closeCalls, exitCode,
                   started, collected, returned, intAt, trace, samples>>

\* mutant: the result of the existence check is ignored, create always runs
Exists_alwaysCreate ==
    /\ pc = "exists"
    /\ calls' = Append(calls, Entry("exists", IF indexExists THEN "present" ELSE "absent"))
    /\ pc' = "create"
    /\ UNCHANGED <<exc, data, indexExists, opened, closeCalls, exitCode,
                   started, collected, returned, intAt, trace, samples>>

\* mutant: the `not` of the existence check is dropped
Exists_inverted ==
    /\ pc = "exists"
    /\ calls' = Append(calls, Entry("exists", IF indexExists THEN "present" ELSE "absent"))
    /\ pc' = IF indexExists THEN "create" ELSE "index"
    /\ UNCHANGED <<exc, data, indexExists, opened, closeCalls, exitCode,
                   started, collected, returned, intAt, trace, samples>>

\* es_client.indices.exists(index) returns
Exists ==
    /\ pc = "exists"
    /\ calls' = Append(calls, Entry("exists", IF indexExists THEN "present" ELSE "absent"))
    /\ pc' = IF indexExists THEN "index" ELSE "create"
    /\ UNCHANGED <<exc, data, indexExists, opened, closeCalls, exitCode,
                   started, collected, returned, intAt, trace, samples>>

\* es_client.indices.create(index) returns; the backend rejects the
\* creation of an index that exists
Create ==
    /\ pc = "create"
    /\ ~indexExists
    /\ indexExists' = TRUE
    /\ calls' = Append(calls, Entry("create", "ok"))
    /\ pc' = "index"
    /\ UNCHANGED <<exc, data, opened, closeCalls, exitCode,
                   started, collected, returned, intAt, trace, samples>>

\* mutant: the success path goes round without calling time.sleep
Index_noSleep ==
    /\ pc = "index"
    /\ calls' = Append(calls, Entry("index", "ok"))
    /\ returned' = returned + 1
    /\ pc' = "loop_head"
    /\ UNCHANGED <<exc, data, indexExists, opened, closeCalls, exitCode,
                   started, collected, intAt, trace, samples>>

\* es_client.index(index, body=data) returns; send_data returns
Index ==
    /\ pc = "index"
    /\ calls' = Append(calls, Entry("index", "ok"))
    /\ returned' = returned + 1
    /\ pc' = "sleep"
    /\ trace' = Append(trace, "sleep")
    /\ UNCHANGED <<exc, data, indexExists, opened, closeCalls, exitCode,
                   started, collected, intAt, samples>>

\* one of the three client calls raises e.  A create that fails on the
\* way back (timeout, broken response) may have been applied.
ClientRaise ==
    /\ pc \in InSend
    /\ \E e \in ClientErrors :
         /\ calls' = Append(calls, Entry(pc, e))
         /\ pc' = RaiseTo(e, pc).pc
         /\ exc' = RaiseTo(e, pc).exc
         /\ \E applied \in BOOLEAN :
              indexExists' = (indexExists \/ (applied /\ pc = "create" /\ e \in TransportClass))
    /\ UNCHANGED <<data, opened, closeCalls, exitCode,
                   started, collected, returned, intAt, trace, samples>>

\* mutant: the except clause sends the same sample again
SendExcept_retry ==
    /\ pc = "send_except"
    /\ pc' = "index"
    /\ UNCHANGED <<exc, data, indexExists, calls, opened, closeCalls, exitCode,
                   started, collected, returned, intAt, trace, samples>>

\* mutant: after a swallowed failure the loop goes round without sleeping
SendExcept_noSleep ==
    /\ pc = "send_except"
    /\ returned' = returned + 1
    /\ pc' = "loop_head"
    /\ UNCHANGED <<exc, data, indexExists, calls, opened, closeCalls, exitCode,
                   started, collected, intAt, trace, samples>>

\* the except clause of send_data prints and send_data returns
SendExcept ==
    /\ pc = "send_except"
    /\ returned' = returned + 1
    /\ pc' = "sleep"
    /\ trace' = Append(trace, "sleep")
    /\ UNCHANGED <<exc, data, indexExists, calls, opened, closeCalls, exitCode,
                   started, collected, intAt, samples>>

\* time.sleep returns and the loop goes round
Sleep ==
    /\ pc = "sleep"
    /\ pc' = "loop_head"
    /\ trace' = Append(trace, "wake")
    /\ UNCHANGED <<exc, data, indexExists, calls, opened, closeCalls, exitCode,
                   started, collected, returned, intAt, samples>>

\* mutant: `continue` instead of `break`
Handler_continue ==
    /\ pc = "handler"
    /\ pc' = "loop_head"
    /\ UNCHANGED <<exc, data, indexExists, calls, opened, closeCalls, exitCode,
                   started, collected, returned, intAt, trace, samples>>

\* the loop's except clause: print, break
Handler ==
    /\ pc = "handler"
    /\ pc' = "exit_print"
    /\ UNCHANGED <<exc, data, indexExists, calls, opened, closeCalls, exitCode,
                   started, collected, returned, intAt, trace, samples>>

\* __exit__: print
ExitPrint ==
    /\ pc = "exit_print"
    /\ pc' = "exit_close"
    /\ UNCHANGED <<exc, data, indexExists, calls, opened, closeCalls, exitCode,
                   started, collected, returned, intAt, trace, samples>>

\* mutant: the with statement sits inside the loop, so the client is closed
\* and the loop goes on
ExitClose_inLoop ==
    /\ pc = "exit_close"
    /\ closeCalls' = closeCalls + 1
    /\ pc' = "loop_head"
    /\ UNCHANGED <<exc, data, indexExists, calls, opened, exitCode,
                   started, collected, returned, intAt, trace, samples>>

\* __exit__: self.client.close(); __exit__ returns None, so a pending
\* exception goes on to the top level and the interpreter exits
ExitClose ==
    /\ pc = "exit_close"
    /\ closeCalls' = closeCalls + 1
    /\ pc' = "done"
    /\ exitCode' = IF exc = "None" THEN 0 ELSE 1
    /\ UNCHANGED <<exc, data, indexExists, calls, opened,
                   started, collected, returned, intAt, trace, samples>>

Snapshot == [at |-> pc, calls |-> Len(calls), started |-> started,
             collected |-> collected, returned |-> returned]

\* a KeyboardInterrupt is raised at the current program point
Interrupt ==
    /\ pc \in Running \cup {"init", "exit_print", "exit_close"}
    /\ Len(intAt) < MaxInterrupts
    /\ intAt' = Append(intAt, Snapshot)
    /\ IF pc \in Running
         THEN /\ pc' = RaiseTo(KeyboardInterrupt, pc).pc
              /\ exc' = RaiseTo(KeyboardInterrupt, pc).exc
              /\ UNCHANGED <<closeCalls, exitCode>>
         ELSE \* outside the with block's body nothing handles it; in
              \* exit_close the close() call has been entered
              /\ pc' = "done"
              /\ exc' = KeyboardInterrupt
              /\ exitCode' = 1
              /\ closeCalls' = IF pc = "exit_close" THEN closeCalls + 1 ELSE closeCalls
    /\ UNCHANGED <<data, indexExists, calls, opened, started, collected, returned, trace, samples>>

Next ==
    \/ Connect
    \/ ConnectFail
    \/ LoopHead
    \/ CollectData
    \/ CollectDataFail
    \/ Exists
    \/ Create
    \/ Index
    \/ ClientRaise
    \/ SendExcept
    \/ Sleep
    \/ Handler
    \/ ExitPrint
    \/ ExitClose
    \/ Interrupt

Spec == Init /\ [][Next]_vars

\* ------------------------------------------------------------------ types
TypeOK ==
    /\ pc \in Running \cup {"init", "exit_print", "exit_close", "done"}
    /\ exc \in ClientErrors \cup {KeyboardInterrupt, "None"}
    /\ indexExists \in BOOLEAN
    /\ opened \in 0..1
    /\ closeCalls \in 0..1
    /\ exitCode \in {NotExited, 0, 1}
    /\ started \in 0..MaxSamples
    /\ collected \in 0..started
    /\ returned \in 0..collected
    /\ Len(intAt) <= MaxInterrupts
    /\ Len(trace) <= 4 * MaxSamples
    /\ Len(samples) = collected


\* ------------------------------------------------------ claim vocabulary
Left == {"handler", "exit_print", "exit_close", "done"}   \* the loop is over
IsError(res) == res \in ClientErrors
FirstInt == intAt[1]

\* C1: a transport-class error raised by exists, create or index is
\* swallowed: send_data returns normally (or is still printing the
\* failure) and the error never ends the loop, unless an interrupt arrives.
C1_ExportFailureIsolated ==
    \A i \in DOMAIN calls :
        calls[i].res \in TransportClass =>
            \/ pc = "send_except" /\ i = Len(calls)
            \/ returned >= calls[i].call
            \/ intAt # <<>>

\* C2: every run that entered RUNNING and terminated has called close()
\* exactly once.
C2_ClosedExactlyOnce ==
    (pc = "done" /\ opened = 1) => closeCalls = 1

\* C3: once an interrupt has been delivered during time.sleep the loop is
\* over, no collection and no backend call happens any more, and (no other
\* interrupt arriving) the process ends with status 0 after one close().
C3_InterruptDuringSleep ==
    (intAt # <<>> /\ FirstInt.at = "sleep") =>
        /\ pc \in Left
        /\ Len(calls) = FirstInt.calls
        /\ started = FirstInt.started
        /\ collected = FirstInt.collected
        /\ (pc = "done" /\ Len(intAt) = 1) => (exitCode = 0 /\ closeCalls = 1)

C3_Witness ==
    /\ pc = "done"
    /\ Len(intAt) = 1
    /\ FirstInt.at = "sleep"
    /\ FirstInt.returned >= 1
    /\ exitCode = 0
    /\ closeCalls = 1

\* C4 as stated: when the loop has ended because of an interrupt, every
\* sample whose collection started was collected and its export attempt
\* ran to completion.
C4_ObservedBetweenIterations ==
    (pc \in Left /\ intAt # <<>> /\ exc \in {"None", KeyboardInterrupt}) =>
        (collected = started /\ returned = started)

\* C4 amended: an interrupt that arrives while collect_data or send_data
\* is executing aborts that operation at once: the loop's handler takes
\* over, the sample in progress is never completed (not collected, or its
\* export not finished), nothing further is collected or sent, and with no
\* other interrupt the process ends with status 0.
C4_InterruptAbortsOperation ==
    (intAt # <<>> /\ FirstInt.at \in {"collect", "exists", "create", "index", "send_except"}) =>
        /\ pc \in Left
        /\ Len(calls) = FirstInt.calls
        /\ started = FirstInt.started
        /\ collected = FirstInt.collected
        /\ returned = FirstInt.returned
        /\ returned < started
        /\ (pc = "done" /\ Len(intAt) = 1) => (exitCode = 0 /\ closeCalls = 1)

C4_Witness ==
    /\ pc = "done"
    /\ Len(intAt) = 1
    /\ FirstInt.at = "index"
    /\ collected = started
    /\ returned < started
    /\ exitCode = 0

\* C5: a terminated run whose interrupts were all delivered in RUNNING
\* ends with status 0 if there was one, and ends non-zero only after a
\* startup failure or a programming error.
C5_ExitStatus ==
    (pc = "done" /\ \A i \in DOMAIN intAt : intAt[i].at \in Running) =>
        /\ intAt # <<>> => exitCode = 0
        /\ exitCode = 1 => (opened = 0 \/ exc = ProgrammingError)

\* C6: as long as no connection was established the driver is not in
\* RUNNING: no iteration starts, no backend call is made, nothing is
\* closed, and the process can only end with a non-zero status.
C6_ConnectFailureIsFatal ==
    opened = 0 =>
        /\ pc \in {"init", "done"}
        /\ started = 0
        /\ collected = 0
        /\ calls = <<>>
        /\ closeCalls = 0
        /\ pc = "done" => exitCode = 1

C6_Witness ==
    /\ pc = "done"
    /\ opened = 0
    /\ exc = ProgrammingError
    /\ intAt = <<>>
    /\ exitCode = 1

\* C7: create returns successfully at most once, and after a successful
\* create no later call invokes create and every later existence check
\* that answers says the collection exists.
C7_CreateAtMostOnce ==
    \A i \in DOMAIN calls :
        (calls[i].op = "create" /\ calls[i].res = "ok") =>
            \A j \in DOMAIN calls :
                j > i => /\ calls[j].op # "create"
                         /\ calls[j].op = "exists" => calls[j].res # "absent"

C7_Witness ==
    /\ Len(calls) >= 5
    /\ calls[2].op = "create" /\ calls[2].res = "ok"
    /\ \E j \in DOMAIN calls : j > 3 /\ calls[j].op = "exists" /\ calls[j].res = "present"
    /\ returned >= 2

\* C8: inside one send_data call the order is exists, create only after
\* "absent", index only after "present" or a successful create; with an
\* absent collection and two error-free iterations the calls are
\* exists, create, index, exists, index.
C8_StepOrder ==
    /\ \A i \in DOMAIN calls :
         /\ calls[i].op = "exists" => (i = 1 \/ calls[i-1].call < calls[i].call)
         /\ calls[i].op = "create" =>
               /\ i > 1
               /\ calls[i-1].call = calls[i].call
               /\ calls[i-1].op = "exists" /\ calls[i-1].res = "absent"
         /\ calls[i].op = "index" =>
               /\ i > 1
               /\ calls[i-1].call = calls[i].call
               /\ \/ calls[i-1].op = "exists" /\ calls[i-1].res = "present"
                  \/ calls[i-1].op = "create" /\ calls[i-1].res = "ok"
    /\ ( /\ returned >= 2
         /\ calls[1].res = "absent"
         /\ \A i \in 1..Len(calls) : calls[i].call <= 2 => ~IsError(calls[i].res) )
       => /\ Len(calls) >= 5
          /\ [i \in 1..5 |-> calls[i].op] = <<"exists", "create", "index", "exists", "index">>

C8_Witness ==
    /\ returned = 2
    /\ Len(calls) = 5
    /\ calls[1].res = "absent"
    /\ \A i \in DOMAIN calls : ~IsError(calls[i].res)
    /\ calls[5].op = "index"

\* C9: no sample is handed to index twice, and an index call made after a
\* failed call belongs to a later iteration and carries a later sample.
C9_AtMostOnce ==
    \A i \in DOMAIN calls : \A j \in DOMAIN calls :
        (i < j /\ calls[j].op = "index") =>
            /\ calls[i].op = "index" => calls[i].doc # calls[j].doc
            /\ (calls[i].op = "index" \/ IsError(calls[i].res)) =>
                  /\ calls[j].call > calls[i].call
                  /\ calls[j].doc.timestamp > calls[i].doc.timestamp

C9_Witness ==
    \E i \in DOMAIN calls : \E j \in DOMAIN calls :
        /\ i < j
        /\ calls[i].op = "index" /\ calls[i].res = HTTPError
        /\ calls[j].op = "index" /\ calls[j].res = "ok"
        /\ calls[j].doc.timestamp = calls[i].doc.timestamp + 1

\* C10: a programming error raised by collect_data or by a client call is
\* caught nowhere: the loop is over at once (no later call, sample or
\* sleep), send_data did not return, and the process ends non-zero.
C10_ProgrammingErrorIsFatal ==
    /\ (exc = ProgrammingError /\ opened = 1) =>
          /\ pc \in Left \ {"handler"}
          /\ returned < started
          /\ pc = "done" => exitCode = 1
    /\ \A i \in DOMAIN calls :
          calls[i].res = ProgrammingError =>
              /\ i = Len(calls)
              /\ started = calls[i].call
              /\ returned < started
              /\ exc \in {ProgrammingError, KeyboardInterrupt}
              /\ pc \in Left \ {"handler"}
              /\ pc = "done" => exitCode = 1

C10_Witness ==
    /\ pc = "done"
    /\ exc = ProgrammingError
    /\ Len(calls) >= 4
    /\ calls[Len(calls)].op = "index"
    /\ calls[Len(calls)].res = ProgrammingError
    /\ exitCode = 1
    /\ closeCalls = 1

\* the step an iteration performs at position i of the driver's trace
StepAt(i) ==
    CASE i % 4 = 1 -> "collect"
      [] i % 4 = 2 -> "send"
      [] i % 4 = 3 -> "sleep"
      [] OTHER     -> "wake"

CountOf(ev) == Cardinality({i \in DOMAIN trace : trace[i] = ev})

\* C11: the driver's steps come strictly in the order collect_data,
\* send_data, time.sleep, wake-up, once each per iteration; every backend
\* call belongs to an iteration whose sample was collected; the sleep is
\* called exactly when send_data has returned.
C11_IterationOrder ==
    /\ \A i \in DOMAIN trace : trace[i] = StepAt(i)
    /\ CountOf("collect") = started
    /\ CountOf("send") = collected
    /\ CountOf("sleep") = returned
    /\ \A i \in DOMAIN calls :
          \/ (calls[i].call = started /\ collected = started)
          \/ calls[i].call < started
    /\ pc = "collect" => trace[Len(trace)] = "collect"
    /\ pc \in InSend \cup {"send_except"} => trace[Len(trace)] = "send"
    /\ pc = "sleep" => trace[Len(trace)] = "sleep"
    /\ pc = "loop_head" => (trace = <<>> \/ trace[Len(trace)] = "wake")

C11_Witness ==
    /\ pc = "loop_head"
    /\ Len(trace) = 8
    /\ started = 2
    /\ returned = 2
    /\ intAt = <<>>

\* C12: every document handed to index is the dict collect_data returned
\* in the same iteration, with exactly the six fields.
C12_DocumentIsTheSample ==
    \A i \in DOMAIN calls :
        calls[i].op = "index" =>
            /\ calls[i].call \in DOMAIN samples
            /\ calls[i].doc = samples[calls[i].call]
            /\ DOMAIN calls[i].doc = SampleFields
            /\ calls[i].doc.timestamp = calls[i].call

C12_Witness ==
    \E i \in DOMAIN calls : \E j \in DOMAIN calls :
        /\ calls[i].op = "index" /\ calls[i].res = "ok" /\ calls[i].call = 1
        /\ calls[j].op = "index" /\ calls[j].res = "ok" /\ calls[j].call = 2
        /\ calls[i].doc.cpu_percent # calls[j].doc.cpu_percent

\* C13: with no interrupt and no programming error (every error raised is
\* a transport-class error of an export call) the driver stays in RUNNING.
C13_LoopIsInfinite ==
    (opened = 1 /\ intAt = <<>> /\ exc # ProgrammingError) =>
        pc \in Running \ {"handler"}

\* C14: after a swallowed transport error of exists or create that call
\* is the last backend call of its iteration (no create after a failed
\* exists, no index for the sample), send_data returns, time.sleep is
\* called next and the next iteration starts only after the wake-up.
C14_FailedExportIsDropped ==
    \A i \in DOMAIN calls :
        (calls[i].op \in {"exists", "create"} /\ calls[i].res = HTTPError) =>
            /\ \A j \in DOMAIN calls : calls[j].call = calls[i].call => j <= i
            /\ \/ pc = "send_except" /\ i = Len(calls)
               \/ returned >= calls[i].call
               \/ intAt # <<>> /\ FirstInt.at = "send_except" /\ FirstInt.started = calls[i].call
            /\ returned >= calls[i].call =>
                  /\ Len(trace) >= 4 * calls[i].call - 1
                  /\ trace[4 * calls[i].call - 1] = "sleep"
            /\ started > calls[i].call =>
                  /\ Len(trace) >= 4 * calls[i].call
                  /\ trace[4 * calls[i].call] = "wake"

C14_Witness ==
    /\ Len(calls) >= 3
    /\ calls[1].op = "exists" /\ calls[1].res = "absent"
    /\ calls[2].op = "create" /\ calls[2].res = HTTPError
    /\ calls[3].op = "exists" /\ calls[3].call = 2
    /\ Len(trace) >= 5
    /\ trace[3] = "sleep"

\* the lifecycle state of the driver
Phase ==
    IF pc = "init" THEN 0
    ELSE IF pc \in Running THEN 1
    ELSE 2

\* C15: the lifecycle only moves forward; at most one client is ever
\* opened and it is never reopened; backend calls and collections happen
\* only with the client open and not closed; after close() no backend
\* call and no collection happens and nothing is closed again.
C15_Lifecycle ==
    /\ [](/\ opened <= 1
          /\ closeCalls <= 1
          /\ Phase = 1 => (opened = 1 /\ closeCalls = 0)
          /\ (calls # <<>> \/ started > 0) => opened = 1
          /\ closeCalls = 1 => Phase = 2)
    /\ [][/\ Phase' >= Phase
          /\ opened' >= opened
          /\ (calls' # calls \/ samples' # samples \/ started' # started) =>
                (opened = 1 /\ closeCalls = 0 /\ closeCalls' = 0)
          /\ closeCalls >= 1 =>
                (closeCalls' = closeCalls /\ opened' = opened /\ trace' = trace)]_vars

C15_Witness ==
    /\ pc = "done"
    /\ opened = 1
    /\ closeCalls = 1
    /\ Len(calls) >= 5
    /\ calls[Len(calls)].op = "index"
    /\ started >= 2

====
